---- MODULE Spec2Model ----
(***************************************************************************)
(* Model of package retry (minitauros/go-retry): the three base loops      *)
(* Retry, RetryWithDelay and RetryWithStop of retry.go, their context      *)
(* wrappers, and the four BackOffRetrier methods.  Spec follows one call   *)
(* at a time on one goroutine, the context being cancelled by the          *)
(* environment; SpecFair is Spec with a scheduler that keeps the call       *)
(* running; SpecPar follows two goroutines that call the methods of one    *)
(* BackOffRetrier concurrently.                                            *)
(***************************************************************************)
EXTENDS Integers, Sequences, FiniteSets

\* ---------------------------------------------------------------- bounds
MaxRetries == 3         \* numTimes ranges over -1..MaxRetries
MaxDelay == 1           \* the delay argument of RetryWithDelay(Ctx) ranges over 0..MaxDelay
MaxInitialDelay == 1    \* initialDelay of the retrier ranges over 0..MaxInitialDelay
MaxCoefNum == 3         \* backOffCoefficient = num/den, num in 1..MaxCoefNum
MaxCoefDen == 2         \*                               den in 1..MaxCoefDen
MaxStopCalls == 2       \* stop() calls the operation makes in one attempt

\* ---------------------------------------------------------------- values
Errs == {"E1", "E2"}                            \* errors the operation returns
Reasons == {"Canceled", "DeadlineExceeded"}     \* what ctx.Err() returns once done
Outcomes == {"nil"} \cup Errs

Fns == {"Retry", "RetryCtx", "RetryWithDelay", "RetryWithDelayCtx",
        "RetryWithStop", "RetryWithStopCtx",
        "BackOffRetrier.Retry", "BackOffRetrier.RetryCtx",
        "BackOffRetrier.RetryWithStop", "BackOffRetrier.RetryWithStopCtx"}

\* The base loop that drives each exported function.
Base(f) ==
    CASE f \in {"Retry", "RetryCtx", "BackOffRetrier.Retry", "BackOffRetrier.RetryCtx"} -> "Retry"
      [] f \in {"RetryWithDelay", "RetryWithDelayCtx"} -> "RetryWithDelay"
      [] OTHER -> "RetryWithStop"

HasCtx(f) == f \in {"RetryCtx", "RetryWithDelayCtx", "RetryWithStopCtx",
                    "BackOffRetrier.RetryCtx", "BackOffRetrier.RetryWithStopCtx"}

IsBackOff(f) == f \in {"BackOffRetrier.Retry", "BackOffRetrier.RetryCtx",
                       "BackOffRetrier.RetryWithStop", "BackOffRetrier.RetryWithStopCtx"}

\* math.Round of the non-negative rational n/d: half away from zero.
Round(n, d) == (2 * n + d) \div (2 * d)

NextDelay_Trunc(coef, d) == (coef[1] * d) \div coef[2]

NextDelay_Fixed(coef, d) == d

\* time.Duration(math.Round(r.backOffCoefficient * float64(delay)))
NextDelay(coef, d) == Round(coef[1] * d, coef[2])

LoopCond_Unbounded(k, n) == TRUE

LoopCond_Strict(k, n) == k < n

LoopCond_Loose(k, n) == k <= n + 1

\* for i := 0; i <= numTimes; i++
LoopCond(k, n) == k <= n

StopBreaks_Never(c) == FALSE

\* RetryWithStop: if cancelled { break }
StopBreaks(c) == c

StopSets_Toggle(c) == ~c

\* stop := func() { cancelled = true }: the value stop() gives cancelled, c
\* being its value before the call.
StopSets(c) == TRUE

CtxStops_Never(f) == FALSE

\* The context callbacks of the stop variants call stop() before they return
\* ctx.Err(); those of the other variants have no stop to call.
CtxStops(f) == Base(f) = "RetryWithStop"

AssignErr_KeepError(old, e) == IF e = "nil" THEN old ELSE e

\* err = cb(): the value of err after the assignment, old being its value before.
AssignErr(old, e) == e

CtxDone_Inverted(c) == c = "nil"

CtxDone_Never(c) == FALSE

\* if ctx.Err() != nil
CtxDone(c) == c # "nil"

CtxCallbackResult_Recheck(c, e) == IF c # "nil" THEN c ELSE e

\* the context wrappers of retry.go: return cb()
CtxCallbackResult(c, e) == e

CtxErrResult_Nil(c) == "nil"

\* return ctx.Err() (retry.go), return err (BackOffRetrier): what a context
\* callback returns when it found the context done, c being ctx.Err().
CtxErrResult(c) == c

CtxErrSleeps_FallsThrough(f) == TRUE

\* BackOffRetrier.RetryCtx and RetryWithStopCtx: err := ctx.Err(); if err != nil
\* { return err } comes before time.Sleep(delay): whether the callback that found
\* the context done still reaches the sleep.
CtxErrSleeps(f) == FALSE

BackOffReturn_Nil(e) == "nil"

\* return err at the end of a BackOffRetrier callback, e being what the
\* operation returned.
BackOffReturn(e) == e

BackOffSleeps_Always(e, c) == TRUE

BackOffSleeps_UnlessStopped(e, c) == e # "nil" /\ ~c

\* BackOffRetrier callbacks: if err != nil { time.Sleep(delay); ... }, e being
\* what the operation returned and c whether stop() has been called.
BackOffSleeps(e, c) == e # "nil"

RetryBody_NoBreak(e, k, n) == "loop"

\* Body of the loop of Retry in iteration k of budget n, after cb() returned e:
\* where control goes.
RetryBody(e, k, n) == IF e = "nil" THEN "done" ELSE "loop"

RetryWithDelayBody_NoLastSleep(e, k, n) ==
    IF e = "nil" THEN "done" ELSE IF k < n THEN "sleep" ELSE "loop"

\* Body of the loop of RetryWithDelay, after cb() returned e.
RetryWithDelayBody(e, k, n) == IF e = "nil" THEN "done" ELSE "sleep"

RetryWithStopBody_BreakOnNil(e, k, n) == IF e = "nil" THEN "done" ELSE "loop"

\* Body of the loop of RetryWithStop, after cb(stop) returned e.
RetryWithStopBody(e, k, n) == "loop"

LoopBody(f, e, k, n) ==
    CASE Base(f) = "Retry" -> RetryBody(e, k, n)
      [] Base(f) = "RetryWithDelay" -> RetryWithDelayBody(e, k, n)
      [] OTHER -> RetryWithStopBody(e, k, n)

\* ---------------------------------------------------------------- state
VARIABLES
    r,          \* the BackOffRetrier: [initialDelay, backOffCoefficient]
    pc,         \* "idle" | "loop" | "cb" | "op" | "sleep" | "done"
    fn,         \* the exported function being executed
    numTimes,   \* its numTimes argument
    argDelay,   \* the delay argument of RetryWithDelay(Ctx)
    i,          \* loop counter of the base loop
    err,        \* err of the base loop; the return value once pc = "done"
    cancelled,  \* cancelled of RetryWithStop, set by stop()
    delay,      \* delay of the BackOffRetrier methods
    ret,        \* err of the BackOffRetrier callback while it sleeps
    ctxErr,     \* ctx.Err()
    cancelAt,   \* when the context was cancelled: [n: operations started, at: pc]
    numCalled,  \* number of invocations of the operation
    stops,      \* stop() calls made by the operation in the current attempt
    hist,       \* one record per callback invocation: [op, res, stop]
    sleeps,     \* durations passed to time.Sleep, in order
    g,          \* calls made by concurrent goroutines on the retrier: their locals
    cell        \* the delay variables of those calls

vars == <<r, pc, fn, numTimes, argDelay, i, err, cancelled, delay, ret, ctxErr,
          cancelAt, numCalled, stops, hist, sleeps, g, cell>>

\* The locals of the single call that Spec follows.
seqVars == <<pc, fn, numTimes, argDelay, i, err, cancelled, delay, ret, ctxErr,
             cancelAt, numCalled, stops, hist, sleeps>>

CallIds == 1..2

\* A goroutine that has not called the retrier yet.
IdleCall == [pc |-> "idle", fn |-> "none", numTimes |-> 0, i |-> 0, err |-> "nil",
             cancelled |-> FALSE, ret |-> "nil", numCalled |-> 0, hist |-> <<>>,
             sleeps |-> <<>>, prior |-> 0]

Never == [n |-> -1, at |-> "never"]
AtStart == [n |-> 0, at |-> "start"]

\* NewBackOffRetrier(initialDelay, backOffCoefficient); no call in progress.
Init ==
    /\ r \in [initialDelay : 0..MaxInitialDelay,
              backOffCoefficient : (1..MaxCoefNum) \X (1..MaxCoefDen)]
    /\ pc = "idle"
    /\ fn = "none"
    /\ numTimes = 0
    /\ argDelay = 0
    /\ i = 0
    /\ err = "nil"
    /\ cancelled = FALSE
    /\ delay = 0
    /\ ret = "nil"
    /\ ctxErr = "nil"
    /\ cancelAt = Never
    /\ numCalled = 0
    /\ stops = 0
    /\ hist = <<>>
    /\ sleeps = <<>>
    /\ g = [c \in CallIds |-> IdleCall]
    /\ cell = [c \in CallIds |-> 0]

\* Entry of an exported function: var err error; i := 0; cancelled := false;
\* delay := r.initialDelay (BackOffRetrier methods).  c is ctx.Err() at the call.
Enter(f, n, d, c) ==
    /\ pc = "idle"
    /\ pc' = "loop"
    /\ fn' = f
    /\ numTimes' = n
    /\ argDelay' = d
    /\ i' = 0
    /\ err' = "nil"
    /\ cancelled' = FALSE
    /\ delay' = IF IsBackOff(f) THEN r.initialDelay ELSE 0
    /\ ret' = "nil"
    /\ ctxErr' = c
    /\ cancelAt' = IF c = "nil" THEN Never ELSE AtStart
    /\ numCalled' = 0
    /\ stops' = 0
    /\ hist' = <<>>
    /\ sleeps' = <<>>
    /\ UNCHANGED <<r, g, cell>>

Budgets == -1..MaxRetries
CtxStates == {"nil"} \cup Reasons

Retry == \E n \in Budgets : Enter("Retry", n, 0, "nil")
RetryCtx == \E n \in Budgets, c \in CtxStates : Enter("RetryCtx", n, 0, c)
RetryWithDelay == \E n \in Budgets, d \in 0..MaxDelay : Enter("RetryWithDelay", n, d, "nil")
RetryWithDelayCtx ==
    \E n \in Budgets, d \in 0..MaxDelay, c \in CtxStates : Enter("RetryWithDelayCtx", n, d, c)
RetryWithStop == \E n \in Budgets : Enter("RetryWithStop", n, 0, "nil")
RetryWithStopCtx == \E n \in Budgets, c \in CtxStates : Enter("RetryWithStopCtx", n, 0, c)
BackOffRetrier_Retry == \E n \in Budgets : Enter("BackOffRetrier.Retry", n, 0, "nil")
BackOffRetrier_RetryCtx ==
    \E n \in Budgets, c \in CtxStates : Enter("BackOffRetrier.RetryCtx", n, 0, c)
BackOffRetrier_RetryWithStop ==
    \E n \in Budgets : Enter("BackOffRetrier.RetryWithStop", n, 0, "nil")
BackOffRetrier_RetryWithStopCtx ==
    \E n \in Budgets, c \in CtxStates : Enter("BackOffRetrier.RetryWithStopCtx", n, 0, c)

\* The loop head of the base loop: the for condition, and in RetryWithStop the
\* test of cancelled that follows it.
LoopTest ==
    /\ pc = "loop"
    /\ pc' = IF LoopCond(i, numTimes) /\ ~(Base(fn) = "RetryWithStop" /\ StopBreaks(cancelled))
             THEN "cb" ELSE "done"
    /\ UNCHANGED <<g, cell, r, fn, numTimes, argDelay, i, err, cancelled, delay, ret, ctxErr,
                   cancelAt, numCalled, stops, hist, sleeps>>

\* The callback returned e to the base loop: err = cb(); then the loop body.
CallbackReturns(e) ==
    /\ err' = AssignErr(err, e)
    /\ pc' = LoopBody(fn, e, i, numTimes)
    /\ i' = IF LoopBody(fn, e, i, numTimes) = "loop" THEN i + 1 ELSE i

\* The callback is entered.  A context variant whose context is done returns
\* ctx.Err() (the stop variants call stop() first); otherwise the operation
\* starts.  The callbacks of one call are never more than MaxRetries + 1.
Callback ==
    /\ pc = "cb"
    /\ Len(hist) <= MaxRetries
    /\ IF HasCtx(fn) /\ CtxDone(ctxErr)
       THEN /\ cancelled' = (IF CtxStops(fn) THEN StopSets(cancelled) ELSE cancelled)
            /\ hist' = Append(hist, [op |-> FALSE, res |-> CtxErrResult(ctxErr),
                                     stop |-> CtxStops(fn)])
            /\ IF IsBackOff(fn) /\ CtxErrSleeps(fn)
               THEN /\ pc' = "sleep"
                    /\ ret' = CtxErrResult(ctxErr)
                    /\ UNCHANGED <<i, err>>
               ELSE /\ CallbackReturns(CtxErrResult(ctxErr))
                    /\ UNCHANGED ret
            /\ UNCHANGED <<numCalled, stops>>
       ELSE /\ pc' = "op"
            /\ numCalled' = numCalled + 1
            /\ stops' = 0
            /\ UNCHANGED <<i, err, cancelled, hist, ret>>
    /\ UNCHANGED <<g, cell, r, fn, numTimes, argDelay, delay, ctxErr, cancelAt, sleeps>>

\* The operation calls stop().
Stop ==
    /\ pc = "op"
    /\ Base(fn) = "RetryWithStop"
    /\ stops < MaxStopCalls
    /\ cancelled' = StopSets(cancelled)
    /\ stops' = stops + 1
    /\ UNCHANGED <<g, cell, r, pc, fn, numTimes, argDelay, i, err, delay, ret, ctxErr, cancelAt,
                   numCalled, hist, sleeps>>

\* The operation returns e.  A BackOffRetrier callback that got an error goes
\* to sleep before it returns; any other callback returns e to the base loop.
OpReturn ==
    /\ pc = "op"
    /\ \E e \in Outcomes :
        /\ hist' = Append(hist, [op |-> TRUE, res |-> e, stop |-> stops > 0])
        /\ IF IsBackOff(fn)
           THEN IF BackOffSleeps(e, cancelled)
                THEN /\ pc' = "sleep"
                     /\ ret' = e
                     /\ UNCHANGED <<i, err>>
                ELSE /\ CallbackReturns(BackOffReturn(e))
                     /\ UNCHANGED ret
           ELSE /\ CallbackReturns(IF HasCtx(fn) THEN CtxCallbackResult(ctxErr, e) ELSE e)
                /\ UNCHANGED ret
    /\ stops' = 0
    /\ UNCHANGED <<g, cell, r, fn, numTimes, argDelay, cancelled, delay, ctxErr, cancelAt,
                   numCalled, sleeps>>

\* time.Sleep returns.  In a BackOffRetrier callback the delay is advanced and
\* the callback returns its error; in RetryWithDelay the loop goes on.
Sleep ==
    /\ pc = "sleep"
    /\ IF IsBackOff(fn)
       THEN /\ sleeps' = Append(sleeps, delay)
            /\ delay' = NextDelay(r.backOffCoefficient, delay)
            /\ CallbackReturns(BackOffReturn(ret))
            /\ ret' = "nil"
       ELSE /\ sleeps' = Append(sleeps, argDelay)
            /\ pc' = "loop"
            /\ i' = i + 1
            /\ UNCHANGED <<err, delay, ret>>
    /\ UNCHANGED <<g, cell, r, fn, numTimes, argDelay, cancelled, ctxErr, cancelAt, numCalled,
                   stops, hist>>

\* The environment cancels the context (or its deadline passes) during a call.
Cancel ==
    /\ pc \in {"loop", "cb", "op", "sleep"}
    /\ HasCtx(fn)
    /\ ctxErr = "nil"
    /\ \E c \in Reasons : ctxErr' = c
    /\ cancelAt' = [n |-> numCalled, at |-> pc]
    /\ UNCHANGED <<g, cell, r, pc, fn, numTimes, argDelay, i, err, cancelled, delay, ret,
                   numCalled, stops, hist, sleeps>>

\* return err: the call is over and its locals are gone.
Return ==
    /\ pc = "done"
    /\ pc' = "idle"
    /\ fn' = "none"
    /\ numTimes' = 0
    /\ argDelay' = 0
    /\ i' = 0
    /\ err' = "nil"
    /\ cancelled' = FALSE
    /\ delay' = 0
    /\ ret' = "nil"
    /\ ctxErr' = "nil"
    /\ cancelAt' = Never
    /\ numCalled' = 0
    /\ stops' = 0
    /\ hist' = <<>>
    /\ sleeps' = <<>>
    /\ UNCHANGED <<r, g, cell>>

Next ==
    \/ Retry
    \/ RetryCtx
    \/ RetryWithDelay
    \/ RetryWithDelayCtx
    \/ RetryWithStop
    \/ RetryWithStopCtx
    \/ BackOffRetrier_Retry
    \/ BackOffRetrier_RetryCtx
    \/ BackOffRetrier_RetryWithStop
    \/ BackOffRetrier_RetryWithStopCtx
    \/ LoopTest
    \/ Callback
    \/ Stop
    \/ OpReturn
    \/ Sleep
    \/ Cancel
    \/ Return

Spec == Init /\ [][Next]_vars

\* ---------------------------------------------------------------- helpers
\* The attempts of the call so far: the callback invocations that ran the operation.
Attempts == SelectSeq(hist, LAMBDA h : h.op)

Failed(h) == h.res # "nil"

TypeOK ==
    /\ pc \in {"idle", "loop", "cb", "op", "sleep", "done"}
    /\ fn \in Fns \cup {"none"}
    /\ numTimes \in Budgets
    /\ err \in Outcomes \cup Reasons
    /\ ctxErr \in CtxStates
    /\ cancelled \in BOOLEAN
    /\ numCalled \in 0..(MaxRetries + 1)

\* Number of attempts so far that returned an error.
Failures == Cardinality({k \in 1..Len(Attempts) : Failed(Attempts[k])})

\* Number of callback invocations so far that returned an error.
FailedCallbacks == Cardinality({k \in 1..Len(hist) : Failed(hist[k])})

AllFailed == \A k \in 1..Len(Attempts) : Failed(Attempts[k])
AllSucceeded == \A k \in 1..Len(Attempts) : ~Failed(Attempts[k])
NoStop == \A k \in 1..Len(hist) : ~hist[k].stop

DelayFns == {"RetryWithDelay", "RetryWithDelayCtx"} \cup {f \in Fns : IsBackOff(f)}

\* ---------------------------------------------------------------- properties

\* C1: Retry with numTimes >= 0: when the operation fails on attempts 1..k-1 and
\* succeeds on attempt k, it has been invoked exactly k times, no attempt follows
\* the successful one, and the call returns nil.
C1_SuccessEndsRetry ==
    (fn = "Retry" /\ numTimes >= 0) =>
        \A k \in 1..Len(Attempts) :
            (Attempts[k].res = "nil" /\ \A j \in 1..(k - 1) : Failed(Attempts[j]))
                => /\ k <= numTimes + 1
                   /\ Len(Attempts) = k
                   /\ numCalled = k
                   /\ pc = "done"
                   /\ err = "nil"

C1_Witness ==
    /\ fn = "Retry" /\ pc = "done" /\ numTimes >= 2
    /\ numCalled = 2 /\ Len(Attempts) = 2
    /\ Failed(Attempts[1]) /\ Attempts[2].res = "nil"
    /\ err = "nil"

\* C2: Retry with numTimes >= 0: when every attempt failed, the operation was
\* invoked exactly numTimes+1 times and the call returns the error of the last
\* attempt as it is.
C2_ExhaustionReturnsLastError ==
    (fn = "Retry" /\ numTimes >= 0 /\ pc = "done" /\ AllFailed) =>
        /\ numCalled = numTimes + 1
        /\ Len(Attempts) = numTimes + 1
        /\ err = Attempts[numTimes + 1].res

C2_Witness ==
    /\ fn = "Retry" /\ pc = "done" /\ numTimes = 2
    /\ numCalled = 3 /\ Len(Attempts) = 3
    /\ Attempts[1].res = "E1" /\ Attempts[2].res = "E1" /\ Attempts[3].res = "E2"
    /\ err = "E2"

\* C3: every context variant called with numTimes >= 0 and a context that is
\* already done never invokes the operation and returns the context's error.
C3_CancelledAtCallNeverInvokes ==
    (HasCtx(fn) /\ numTimes >= 0 /\ cancelAt = AtStart) =>
        /\ numCalled = 0
        /\ pc # "op"
        /\ pc = "done" => (err = ctxErr /\ err \in Reasons)

C3_Witness ==
    /\ fn = "BackOffRetrier.RetryWithStopCtx" /\ pc = "done" /\ numTimes >= 1
    /\ cancelAt = AtStart /\ numCalled = 0 /\ err = "DeadlineExceeded"

\* C4: RetryWithDelayCtx called with a context that is already done and a
\* positive delay performs no sleep.
C4_CancelledAtCallNeverSleeps ==
    (fn = "RetryWithDelayCtx" /\ numTimes >= 0 /\ argDelay > 0 /\ cancelAt = AtStart) =>
        sleeps = <<>>

\* C5: RetryCtx: when the context becomes done after attempt j-1 failed and
\* before the check that precedes attempt j (2 <= j <= numTimes+1), the operation
\* is invoked j-1 times in all and the call returns the context's error.
C5_CancelBetweenAttempts ==
    (/\ fn = "RetryCtx"
     /\ cancelAt.at \in {"loop", "cb"}
     /\ cancelAt.n >= 1 /\ cancelAt.n <= numTimes) =>
        /\ numCalled = cancelAt.n
        /\ Len(Attempts) = cancelAt.n
        /\ Failed(Attempts[cancelAt.n])
        /\ pc = "done" => (err = ctxErr /\ err \in Reasons)

C5_Witness ==
    /\ fn = "RetryCtx" /\ pc = "done" /\ numTimes = 2
    /\ cancelAt = [n |-> 1, at |-> "loop"]
    /\ numCalled = 1 /\ err = "Canceled" /\ Attempts[1].res = "E1"

\* C6: RetryCtx: when the context becomes done while attempt j runs, attempt j
\* completes and its outcome is used (a success is returned as success, a failure
\* of the last attempt of the budget is returned as that failure), and attempt
\* j+1 never starts.
C6_CancelDuringAttempt ==
    (fn = "RetryCtx" /\ cancelAt.at = "op") =>
        /\ numCalled = cancelAt.n
        /\ pc # "op" =>
            /\ Len(Attempts) = cancelAt.n
            /\ Attempts[cancelAt.n].res = "nil" => (pc = "done" /\ err = "nil")
            /\ (pc = "done" /\ Failed(Attempts[cancelAt.n]) /\ cancelAt.n = numTimes + 1)
                   => err = Attempts[cancelAt.n].res

C6_Witness ==
    /\ fn = "RetryCtx" /\ pc = "done" /\ numTimes >= 2
    /\ cancelAt = [n |-> 2, at |-> "op"]
    /\ numCalled = 2 /\ Attempts[2].res = "nil" /\ err = "nil"
    /\ ctxErr \in Reasons

\* C7: RetryWithDelay: one sleep of the configured delay follows every failed
\* attempt, the one that exhausts the budget included: the sleeps done are as
\* many as the failed attempts, and numTimes+1 when every attempt failed.
C7_DelayAfterEveryFailure ==
    (fn = "RetryWithDelay" /\ numTimes >= 0) =>
        /\ \A k \in 1..Len(sleeps) : sleeps[k] = argDelay
        /\ Len(sleeps) = Failures - (IF pc = "sleep" THEN 1 ELSE 0)
        /\ (pc = "done" /\ AllFailed) =>
               (numCalled = numTimes + 1 /\ Len(sleeps) = numTimes + 1)

C7_Witness ==
    /\ fn = "RetryWithDelay" /\ pc = "done" /\ numTimes = 2 /\ argDelay = 1
    /\ AllFailed /\ numCalled = 3
    /\ sleeps = <<1, 1, 1>>

\* C8: in the delay-bearing functions no sleep follows a success: the engine
\* sleeps only right after a callback returned an error, the sleeps are never
\* more than the failed callbacks, and a call whose attempts all succeeded has
\* not slept.
C8_SuccessNeverSleeps ==
    fn \in DelayFns =>
        /\ pc = "sleep" => (hist # <<>> /\ Failed(hist[Len(hist)]))
        /\ Len(sleeps) + (IF pc = "sleep" THEN 1 ELSE 0) <= FailedCallbacks
        /\ (Attempts # <<>> /\ AllSucceeded) => (sleeps = <<>> /\ pc # "sleep")

C8_Witness ==
    /\ fn = "BackOffRetrier.RetryWithStop" /\ pc = "done" /\ r.initialDelay > 0
    /\ Len(Attempts) = 3 /\ AllSucceeded /\ NoStop
    /\ sleeps = <<>>

\* C9: RetryWithStop with numTimes >= 0: an operation that never calls stop() and
\* always succeeds, or always fails, is invoked exactly numTimes+1 times.
C9_OnlyStopEndsLoop ==
    (/\ fn = "RetryWithStop" /\ numTimes >= 0 /\ pc = "done"
     /\ NoStop /\ (AllSucceeded \/ AllFailed)) =>
        (numCalled = numTimes + 1 /\ Len(Attempts) = numTimes + 1)

C9_Witness ==
    /\ fn = "RetryWithStop" /\ pc = "done" /\ numTimes = 2
    /\ NoStop /\ AllSucceeded /\ numCalled = 3 /\ err = "nil"

\* C10: RetryWithStop: when the operation calls stop() during attempt j, attempt
\* j completes with its own outcome, no attempt j+1 starts, and the operation is
\* invoked exactly j times, whether attempt j succeeded or failed.
C10_StopHaltsAfterAttempt ==
    (fn = "RetryWithStop" /\ numTimes >= 0) =>
        /\ (pc = "op" /\ stops > 0) => numCalled = Len(Attempts) + 1
        /\ \A j \in 1..Len(Attempts) :
               Attempts[j].stop =>
                   /\ j = Len(Attempts)
                   /\ j <= numTimes + 1
                   /\ numCalled = j
                   /\ pc \in {"loop", "done"}
                   /\ Attempts[j].res \in Outcomes

C10_Witness ==
    /\ fn = "RetryWithStop" /\ pc = "done" /\ numTimes = 2
    /\ Len(Attempts) = 2 /\ ~Attempts[1].stop /\ Attempts[2].stop
    /\ Attempts[1].res = "nil" /\ Attempts[2].res = "E1"
    /\ numCalled = 2

\* ---------------------------------------------------------------- backoff arithmetic
RECURSIVE IterDelay(_, _, _)
\* The delay after n advances from d: rounding is applied at every step.
IterDelay(coef, d, n) ==
    IF n = 0 THEN d ELSE Round(coef[1] * IterDelay(coef, d, n - 1), coef[2])

RECURSIVE Pow(_, _)
Pow(b, n) == IF n = 0 THEN 1 ELSE b * Pow(b, n - 1)

\* round(d * coef^(k-1)): one rounding of the exact product.
ClosedForm(coef, d, k) == Round(d * Pow(coef[1], k - 1), Pow(coef[2], k - 1))

RECURSIVE SumSeq(_)
SumSeq(q) == IF q = <<>> THEN 0 ELSE q[1] + SumSeq(Tail(q))

RECURSIVE GeomSum(_, _, _)
\* d + d*c + ... + d*c^(m-1)
GeomSum(d, c, m) == IF m <= 0 THEN 0 ELSE GeomSum(d, c, m - 1) + d * Pow(c, m - 1)

IntegerCoef == r.backOffCoefficient[1] % r.backOffCoefficient[2] = 0

\* C11: RetryWithStop returns the outcome of the last attempt it executed,
\* whatever the earlier attempts returned and whether or not stop() was called.
C11_ReturnsLastAttempt ==
    (fn = "RetryWithStop" /\ numTimes >= 0 /\ pc = "done") =>
        /\ Attempts # <<>>
        /\ err = Attempts[Len(Attempts)].res

C11_Witness ==
    /\ fn = "RetryWithStop" /\ pc = "done" /\ numTimes = 2
    /\ Len(Attempts) = 2
    /\ Attempts[1].res = "E1" /\ ~Attempts[1].stop
    /\ Attempts[2].res = "nil" /\ Attempts[2].stop
    /\ err = "nil"

\* C12: stop() is idempotent and touches nothing but the stop flag: every call of
\* it leaves cancelled true, a call made when cancelled is already true changes
\* nothing, and the attempt that called it still hands its own outcome to the loop.
C12_StopIdempotent ==
    /\ [][(pc = "op" /\ stops' = stops + 1) =>
            /\ cancelled'
            /\ UNCHANGED <<r, pc, fn, numTimes, argDelay, i, err, delay, ret, ctxErr,
                           cancelAt, numCalled, hist, sleeps>>]_vars
    /\ [](((fn \in {"RetryWithStop", "RetryWithStopCtx"}) /\ pc \in {"loop", "done"}
            /\ hist # <<>> /\ hist[Len(hist)].op)
              => err = hist[Len(hist)].res)

C12_Witness ==
    /\ fn = "RetryWithStop" /\ pc = "op" /\ stops = 2 /\ cancelled
    /\ numCalled = 2

\* C13: RetryWithStopCtx: a callback that finds the context done raises the stop
\* flag and returns the context's error without invoking the operation, and it
\* is the last callback of the call: no later iteration polls or invokes.
C13_CancelStopsTheLoop ==
    (fn = "RetryWithStopCtx" /\ numTimes >= 0) =>
        \A k \in 1..Len(hist) :
            ~hist[k].op =>
                /\ k = Len(hist)
                /\ cancelled
                /\ err = ctxErr /\ err \in Reasons
                /\ numCalled = k - 1
                /\ pc \in {"loop", "done"}

C13_Witness ==
    /\ fn = "RetryWithStopCtx" /\ pc = "done" /\ numTimes = 3
    /\ Len(hist) = 2 /\ hist[1].op /\ ~hist[1].stop /\ ~hist[2].op
    /\ numCalled = 1 /\ err = "Canceled"

C15_NoSleepAfterStoppedFailure ==
    (/\ fn \in {"BackOffRetrier.RetryWithStop", "BackOffRetrier.RetryWithStopCtx"}
     /\ r.initialDelay > 0 /\ numTimes >= 1 /\ pc = "done"
     /\ Len(hist) = 2 /\ hist[1].op /\ hist[2].op
     /\ hist[1].res = "nil" /\ ~hist[1].stop
     /\ hist[2].res \in Errs /\ hist[2].stop) =>
        (numCalled = 2 /\ sleeps = <<>>)

\* C16 as stated: the sleep after the i-th failed attempt of a BackOffRetrier
\* method is round(initialDelay * coefficient^(i-1)).
C16_ClosedForm ==
    IsBackOff(fn) =>
        \A k \in 1..Len(sleeps) :
            sleeps[k] = ClosedForm(r.backOffCoefficient, r.initialDelay, k)

\* C16 as amended: the sleep after the i-th failed attempt is the delay obtained
\* from initialDelay by i-1 multiplications, each one rounded; it is
\* round(initialDelay * coefficient^(i-1)) for i <= 2 and for integer coefficients.
C16_StepwiseRounding ==
    IsBackOff(fn) =>
        \A k \in 1..Len(sleeps) :
            /\ sleeps[k] = IterDelay(r.backOffCoefficient, r.initialDelay, k - 1)
            /\ (k <= 2 \/ IntegerCoef) =>
                   sleeps[k] = ClosedForm(r.backOffCoefficient, r.initialDelay, k)

C16_Witness ==
    /\ IsBackOff(fn)
    /\ r = [initialDelay |-> 1, backOffCoefficient |-> <<3, 2>>]
    /\ sleeps = <<1, 2, 3>>
    /\ ClosedForm(r.backOffCoefficient, r.initialDelay, 3) = 2

\* C17: BackOffRetrier.Retry with an integer coefficient c >= 1: when the
\* operation failed k >= 1 times and then succeeded, the time slept is at least
\* d + d*c + ... + d*c^(k-2).
C17_BackOffLowerBound ==
    (/\ fn = "BackOffRetrier.Retry" /\ pc = "done" /\ err = "nil"
     /\ IntegerCoef /\ Failures >= 1) =>
        SumSeq(sleeps) >= GeomSum(r.initialDelay,
                                  r.backOffCoefficient[1] \div r.backOffCoefficient[2],
                                  Failures - 1)

C17_Witness ==
    /\ fn = "BackOffRetrier.Retry" /\ pc = "done" /\ err = "nil"
    /\ r = [initialDelay |-> 1, backOffCoefficient |-> <<3, 1>>]
    /\ Failures = 3
    /\ sleeps = <<1, 3, 9>>

\* C20: in every state of every variant called with numTimes >= 0, the operation
\* has been invoked at most numTimes+1 times.
C20_AttemptCeiling ==
    (fn \in Fns /\ numTimes >= 0) =>
        (numCalled <= numTimes + 1 /\ Len(Attempts) <= numTimes + 1)

C20_Witness ==
    /\ fn = "BackOffRetrier.RetryWithStopCtx" /\ numTimes = 2
    /\ numCalled = 3 /\ pc = "done"
    /\ ctxErr # "nil"

\* ---------------------------------------------------------------- concurrent calls
ParRetries == 1         \* numTimes of the concurrent calls ranges over 0..ParRetries

ParFns == {"BackOffRetrier.Retry", "BackOffRetrier.RetryWithStop"}
ParOutcomes == {"nil", "E1"}

DelayOwner_Shared(c) == 1

\* delay := r.initialDelay declares a variable of the call: call c reads and
\* writes its own delay, and no other.
DelayOwner(c) == c

\* Sleeps done so far by the call of the other goroutine.
SleepsOfOthers(c) == Len(g[3 - c].sleeps)

\* Goroutine c calls a method of the retrier.
PEnter(c) ==
    /\ g[c].pc = "idle"
    /\ \E f \in ParFns, n \in 0..ParRetries :
        g' = [g EXCEPT ![c] = [IdleCall EXCEPT !.pc = "loop", !.fn = f, !.numTimes = n,
                                              !.prior = SleepsOfOthers(c)]]
    /\ cell' = [cell EXCEPT ![DelayOwner(c)] = r.initialDelay]
    /\ UNCHANGED <<r, seqVars>>

\* The loop head of the call of goroutine c.
PLoopTest(c) ==
    /\ g[c].pc = "loop"
    /\ g' = [g EXCEPT ![c].pc =
                IF LoopCond(g[c].i, g[c].numTimes)
                   /\ ~(Base(g[c].fn) = "RetryWithStop" /\ StopBreaks(g[c].cancelled))
                THEN "cb" ELSE "done"]
    /\ UNCHANGED <<r, cell, seqVars>>

\* The callback of goroutine c is entered and invokes the operation.
PCallback(c) ==
    /\ g[c].pc = "cb"
    /\ g' = [g EXCEPT ![c].pc = "op", ![c].numCalled = @ + 1]
    /\ UNCHANGED <<r, cell, seqVars>>

\* The operation of goroutine c calls stop().
PStop(c) ==
    /\ g[c].pc = "op"
    /\ Base(g[c].fn) = "RetryWithStop"
    /\ ~g[c].cancelled
    /\ g' = [g EXCEPT ![c].cancelled = StopSets(@)]
    /\ UNCHANGED <<r, cell, seqVars>>

\* What the base loop of goroutine c does with the result e of its callback.
PCallbackReturns(c, e) ==
    [g[c] EXCEPT !.err = AssignErr(@, e),
                 !.pc = LoopBody(g[c].fn, e, g[c].i, g[c].numTimes),
                 !.i = IF LoopBody(g[c].fn, e, g[c].i, g[c].numTimes) = "loop"
                       THEN @ + 1 ELSE @,
                 !.ret = "nil"]

\* The operation of goroutine c returns e.
POpReturn(c) ==
    /\ g[c].pc = "op"
    /\ \E e \in ParOutcomes :
        LET h == Append(g[c].hist, [op |-> TRUE, res |-> e, stop |-> g[c].cancelled])
        IN  g' = [g EXCEPT ![c] =
                    IF BackOffSleeps(e, g[c].cancelled)
                    THEN [g[c] EXCEPT !.pc = "sleep", !.ret = e, !.hist = h]
                    ELSE [PCallbackReturns(c, BackOffReturn(e)) EXCEPT !.hist = h]]
    /\ UNCHANGED <<r, cell, seqVars>>

\* time.Sleep returns in goroutine c: the delay is advanced, the callback returns.
PSleep(c) ==
    /\ g[c].pc = "sleep"
    /\ g' = [g EXCEPT ![c] =
                [PCallbackReturns(c, BackOffReturn(g[c].ret)) EXCEPT
                    !.sleeps = Append(@, cell[DelayOwner(c)])]]
    /\ cell' = [cell EXCEPT ![DelayOwner(c)] = NextDelay(r.backOffCoefficient, @)]
    /\ UNCHANGED <<r, seqVars>>

NextPar ==
    \/ \E c \in CallIds : PEnter(c)
    \/ \E c \in CallIds : PLoopTest(c)
    \/ \E c \in CallIds : PCallback(c)
    \/ \E c \in CallIds : PStop(c)
    \/ \E c \in CallIds : POpReturn(c)
    \/ \E c \in CallIds : PSleep(c)

SpecPar == Init /\ [][NextPar]_vars

\* Number of failed attempts of the call of goroutine c.
FailuresOf(c) == Cardinality({k \in 1..Len(g[c].hist) : Failed(g[c].hist[k])})

\* The sleeps of a call that runs alone and has failed m times.
SleepsAlone(m) == [k \in 1..m |-> IterDelay(r.backOffCoefficient, r.initialDelay, k - 1)]

\* The number of invocations of a call of f with budget n that runs alone, when
\* the operation behaves as in h.
EndsAlone(f, n, h) ==
    \/ Len(h) = n + 1
    \/ /\ Len(h) >= 1
       /\ IF Base(f) = "Retry" THEN ~Failed(h[Len(h)]) ELSE h[Len(h)].stop

GoesOnAlone(f, h, k) ==
    IF Base(f) = "Retry" THEN Failed(h[k]) ELSE ~h[k].stop

\* C18: the backoff state belongs to the call: whatever calls were made on the
\* retrier before, and however many sleeps they did, the first sleep of a call is
\* initialDelay, and no call changes the retrier.
C18_DelayStartsAtInitialDelay ==
    /\ [][r' = r]_vars
    /\ [](\A c \in CallIds :
            g[c].sleeps # <<>> => g[c].sleeps[1] = r.initialDelay)

C18_Witness ==
    /\ r = [initialDelay |-> 1, backOffCoefficient |-> <<2, 1>>]
    /\ g[1].pc = "done" /\ g[1].sleeps = <<1, 2>>
    /\ g[2].prior = 2
    /\ g[2].sleeps # <<>> /\ g[2].sleeps[1] = 1

\* C19: two calls that run concurrently on one retrier do not interfere: under
\* every interleaving each call's invocations, returned outcome and slept delays
\* are those of the same call running alone with the same operation results.
C19_CallsDoNotInterfere ==
    \A c \in CallIds :
        g[c].pc # "idle" =>
            /\ g[c].numCalled = Len(g[c].hist) + (IF g[c].pc = "op" THEN 1 ELSE 0)
            /\ \A k \in 1..(Len(g[c].hist) - 1) : GoesOnAlone(g[c].fn, g[c].hist, k)
            /\ Len(g[c].hist) <= g[c].numTimes + 1
            /\ g[c].pc = "done" =>
                   /\ EndsAlone(g[c].fn, g[c].numTimes, g[c].hist)
                   /\ g[c].err = g[c].hist[Len(g[c].hist)].res
            /\ g[c].sleeps = SleepsAlone(FailuresOf(c) - (IF g[c].pc = "sleep" THEN 1 ELSE 0))

C19_Witness ==
    /\ r = [initialDelay |-> 1, backOffCoefficient |-> <<2, 1>>]
    /\ g[1].pc = "done" /\ g[2].pc = "done"
    /\ g[1].prior = 0 /\ g[2].prior = 1
    /\ g[1].sleeps = <<1, 2>> /\ g[2].sleeps = <<1, 2>>
    /\ g[1].fn = "BackOffRetrier.Retry" /\ g[2].fn = "BackOffRetrier.RetryWithStop"

\* ---------------------------------------------------------------- context and backoff variants
CtxBackOffFns == {"BackOffRetrier.RetryCtx", "BackOffRetrier.RetryWithStopCtx"}

\* 1 while the call is inside time.Sleep, 0 otherwise.
Sleeping == IF pc = "sleep" THEN 1 ELSE 0

\* C21: BackOffRetrier.RetryCtx and RetryWithStopCtx: a callback that finds the
\* context done does not sleep and leaves the backoff delay as it is, so the
\* sleeps of a call are those of its failed attempts; a call whose context is
\* done from the start never sleeps.
C21_NoSleepOnCancellation ==
    /\ [][(/\ fn \in CtxBackOffFns
           /\ Len(hist') = Len(hist) + 1
           /\ ~hist'[Len(hist')].op) =>
              (pc' # "sleep" /\ delay' = delay /\ sleeps' = sleeps)]_vars
    /\ [](fn \in CtxBackOffFns =>
            /\ Len(sleeps) + Sleeping = Failures
            /\ delay = IterDelay(r.backOffCoefficient, r.initialDelay, Len(sleeps))
            /\ cancelAt = AtStart => (sleeps = <<>> /\ pc # "sleep"))

C21_Witness ==
    /\ fn = "BackOffRetrier.RetryCtx" /\ pc = "done" /\ numTimes = 2
    /\ r = [initialDelay |-> 1, backOffCoefficient |-> <<2, 1>>]
    /\ Len(hist) = 3 /\ hist[1].op /\ Failed(hist[1]) /\ ~hist[2].op /\ ~hist[3].op
    /\ sleeps = <<1>> /\ delay = 2

C23_EndsAtFirstCancelledCheck ==
    fn = "RetryCtx" =>
        \A k \in 1..Len(hist) : ~hist[k].op => k = Len(hist)

\* Whether the base loop b, budget permitting, goes on to another iteration
\* after a callback recorded as h.
BaseGoesOn(b, h) == IF b = "RetryWithStop" THEN ~h.stop ELSE Failed(h)

RegularFns == {f \in Fns : ~IsBackOff(f)}

\* C24: while the context is not done, a context variant and its base do the
\* same for the same operation results and stop() calls: the invocations, the
\* sleeps, the end of the loop and the returned value are one function of the
\* base loop, the budget and the results, whether or not the function takes a
\* context.
C24_CtxVariantsEqualBase ==
    (fn \in RegularFns /\ numTimes >= 0 /\ cancelAt = Never) =>
        /\ \A k \in 1..Len(hist) : hist[k].op
        /\ numCalled = Len(hist) + (IF pc = "op" THEN 1 ELSE 0)
        /\ Len(hist) <= numTimes + 1
        /\ \A k \in 1..(Len(hist) - 1) : BaseGoesOn(Base(fn), hist[k])
        /\ Len(sleeps) = IF Base(fn) = "RetryWithDelay" THEN Failures - Sleeping ELSE 0
        /\ pc = "done" =>
               /\ hist # <<>>
               /\ Len(hist) = numTimes + 1 \/ ~BaseGoesOn(Base(fn), hist[Len(hist)])
               /\ err = hist[Len(hist)].res

C24_Witness ==
    /\ fn = "RetryWithDelayCtx" /\ pc = "done" /\ numTimes = 3 /\ argDelay = 1
    /\ cancelAt = Never /\ ctxErr = "nil"
    /\ Len(hist) = 3 /\ Failed(hist[1]) /\ Failed(hist[2]) /\ hist[3].res = "nil"
    /\ numCalled = 3 /\ sleeps = <<1, 1>> /\ err = "nil"

\* C25: a BackOffRetrier method and the regular function of the same name do
\* the same apart from sleeping: for the same operation results, stop() calls
\* and callbacks that found the context done, the invocations, the end of the
\* loop and the returned value are one function of the base loop, the budget
\* and the callbacks' results, whether or not the method backs off.
C25_BackOffEqualsRegular ==
    (fn \in Fns /\ Base(fn) # "RetryWithDelay") =>
        /\ numCalled = Len(Attempts) + (IF pc = "op" THEN 1 ELSE 0)
        /\ Len(hist) <= numTimes + 1
        /\ \A k \in 1..(Len(hist) - 1) : BaseGoesOn(Base(fn), hist[k])
        /\ \A k \in 1..Len(hist) :
               ~hist[k].op => /\ HasCtx(fn)
                              /\ hist[k].res \in Reasons
                              /\ hist[k].stop = (Base(fn) = "RetryWithStop")
                              /\ \A j \in k..Len(hist) : ~hist[j].op
        /\ pc = "done" =>
               /\ \/ Len(hist) = numTimes + 1
                  \/ numTimes < 0 /\ hist = <<>>
                  \/ hist # <<>> /\ ~BaseGoesOn(Base(fn), hist[Len(hist)])
               /\ err = IF hist = <<>> THEN "nil" ELSE hist[Len(hist)].res

C25_Witness ==
    /\ fn = "BackOffRetrier.RetryCtx" /\ pc = "done" /\ numTimes = 2
    /\ r.initialDelay = 1
    /\ Len(hist) = 3 /\ hist[1].op /\ hist[1].res = "E2" /\ ~hist[2].op /\ ~hist[3].op
    /\ numCalled = 1 /\ err = "Canceled"

\* C26: RetryWithStopCtx: when attempt j-1 succeeded without calling stop() and
\* the callback entered for attempt j finds the context done, the call returns
\* the context's error, not the success, and the operation was invoked j-1 times.
C26_CancelOverridesSuccess ==
    (fn = "RetryWithStopCtx" /\ pc = "done") =>
        \A j \in 2..Len(hist) :
            (/\ hist[j - 1].op /\ hist[j - 1].res = "nil" /\ ~hist[j - 1].stop
             /\ ~hist[j].op) =>
                /\ j <= numTimes + 1
                /\ err = ctxErr /\ err \in Reasons
                /\ numCalled = j - 1

C26_Witness ==
    /\ fn = "RetryWithStopCtx" /\ pc = "done" /\ numTimes = 3
    /\ Len(hist) = 3
    /\ hist[1].op /\ hist[1].res = "nil" /\ ~hist[1].stop
    /\ hist[2].op /\ hist[2].res = "nil" /\ ~hist[2].stop
    /\ ~hist[3].op
    /\ numCalled = 2 /\ err = "DeadlineExceeded"

\* The scheduler runs the goroutine of the call, and every invocation of the
\* operation and every sleep returns.
SpecFair ==
    /\ Spec
    /\ WF_vars(LoopTest)
    /\ WF_vars(Callback)
    /\ WF_vars(OpReturn)
    /\ WF_vars(Sleep)

\* A call is in progress and has not reached its return statement.
InCall == pc \in {"loop", "cb", "op", "sleep"}

\* C27: every call of every function returns, whatever the budget, the results
\* of the operation, its stop() calls and the moment the context is cancelled:
\* a call in progress ends only by reaching its return statement, and it is
\* never in progress for ever.
C27_Termination ==
    /\ [][(InCall /\ ~InCall') => pc' = "done"]_vars
    /\ []<>(~InCall)

C27_Witness ==
    /\ fn = "RetryWithDelayCtx" /\ pc = "done" /\ numTimes = 3
    /\ cancelAt = AtStart
    /\ Len(hist) = 4 /\ Len(sleeps) = 4

\* C28: a call with a negative numTimes never invokes the operation, never
\* sleeps and returns nil, also when its context is already done.
C28_NegativeBudget ==
    (fn \in Fns /\ numTimes < 0) =>
        /\ numCalled = 0
        /\ hist = <<>>
        /\ sleeps = <<>>
        /\ pc \in {"loop", "done"}
        /\ err = "nil"

C28_Witness ==
    /\ fn = "RetryWithStopCtx" /\ pc = "done" /\ numTimes < 0
    /\ cancelAt = AtStart /\ ctxErr = "Canceled"
    /\ numCalled = 0 /\ err = "nil"

====
